---- MODULE Spec2Model ----
(***************************************************************************)
(* Model of sunslicepy/slice.py: construction of a time-distance slice     *)
(* (GenericSlice.__init__ and the _get_slice / _get_curve_ds of each       *)
(* subclass) and the post-processing calls pixel_boxcar and                *)
(* running_difference.                                                     *)
(*                                                                         *)
(* Conventions.                                                            *)
(*  - Python sequences are 0-based, TLA+ sequences 1-based: element i of   *)
(*    the code is element i+1 of the model.                                *)
(*  - A float pixel coordinate returned by world_to_pixel is kept in half  *)
(*    pixels (the integer h stands for h/2) so that int() and np.round     *)
(*    are distinguishable.  World coordinates are kept in half units too.  *)
(*  - A float produced by a uniform kernel is the exact fraction           *)
(*    [num |-> n, den |-> d].                                              *)
(*  - An optional argument is <<>> (None) or <<v>>.                        *)
(*  - A cell of an np.empty array that no statement writes is Uninit in    *)
(*    the value of _get_slice; the object that the constructor returns     *)
(*    holds an arbitrary value of Garbage in each such cell.               *)
(***************************************************************************)
EXTENDS Integers, Sequences, FiniteSets, TLC

\* ---------------------------------------------------------------- bounds
MaxFrames  == 2      \* frames in the MapSequence: 1..MaxFrames
MaxAnchors == 3      \* anchors in the SkyCoord path: 1..MaxAnchors
MaxCoord   == 2      \* largest world coordinate of an anchor (whole units)
MaxWindow  == 3      \* largest spatial window x passed to pixel_boxcar

\* ------------------------------------------------------------- arithmetic
Abs(a) == IF a < 0 THEN -a ELSE a

Sgn(a) == IF a > 0 THEN 1 ELSE IF a < 0 THEN -1 ELSE 0

Max(a, b) == IF a >= b THEN a ELSE b

RECURSIVE SumSeq(_)
SumSeq(s) == IF s = <<>> THEN 0 ELSE Head(s) + SumSeq(Tail(s))

None == <<>>

Some(v) == <<v>>

\* int(v) on a float given in half units: truncation toward zero.
IntTrunc(h) == IF h >= 0 THEN h \div 2 ELSE -((-h) \div 2)

\* np.round(v) on a float given in half units: round half to even.
NpRound(h) ==
    IF h % 2 = 0 THEN h \div 2
    ELSE LET k == (h - 1) \div 2 IN IF k % 2 = 0 THEN k ELSE k + 1

\* numpy indexing of an axis of extent n with the Python integer i:
\* negative indices in -n..-1 wrap around, everything else outside 0..n-1
\* is an IndexError.
InAxis(i, n) == i >= -n /\ i < n

NpIndex(i, n) == IF i < 0 THEN i + n ELSE i

\* ------------------------------------------------- external collaborators
\* A frame (sunpy map): raster shape <<rows, cols>>, the drift of its
\* projection in half pixels <<ox, oy>> and its timestamp.
Shape == <<MaxCoord + 1, MaxCoord + 1>>

TallShape == <<MaxCoord + 2, MaxCoord + 1>>

Drifts == { <<0, 0>>, <<-1, -1>>, <<-2, 0>>, <<2, 0>> }

Garbage == { 7777, 8888 }

\* The mark of a cell of np.empty that has not been written.
Uninit == -1

\* map_s.data[r][c] of frame number fidx (1-based), r and c 0-based: every
\* cell of every frame holds a different value.
Data(frame, fidx, r, c) == 100 * fidx + 10 * r + c + 1

\* GenericMap.world_to_pixel: world half units -> pixel half units <<x, y>>.
world_to_pixel(frame, w) == << w[1] + frame.drift[1], w[2] + frame.drift[2] >>

\* GenericMap.pixel_to_world(x, y): integer pixels -> world half units.
pixel_to_world(frame, x, y) == << 2 * x - frame.drift[1], 2 * y - frame.drift[2] >>

\* SkyCoord.separation: a non-negative distance of two world positions.
separation(a, b) == Abs(a[1] - b[1]) + Abs(a[2] - b[2])

\* MapSequence.all_maps_same_shape(): returns a boolean, raises nothing.
all_maps_same_shape(seq) == \A f \in 1..Len(seq) : seq[f].shape = seq[1].shape

\* --------------------------------------------- sunslicepy.rasterize (4.1)
RECURSIVE BresenhamOffsets(_, _, _, _, _)
BresenhamOffsets(i, m, D, dmaj, dmin) ==
    IF i > dmaj THEN <<>>
    ELSE LET up == D > 0
         IN  <<m>> \o BresenhamOffsets(i + 1,
                                       IF up THEN m + 1 ELSE m,
                                       (IF up THEN D - 2 * dmaj ELSE D) + 2 * dmin,
                                       dmaj, dmin)

\* Integer-accumulator line: ordered <<x, y>> pixels, both endpoints included.
bresenham_line(x0, y0, x1, y1) ==
    LET dx    == x1 - x0
        dy    == y1 - y0
        steep == Abs(dy) > Abs(dx)
        dmaj  == Max(Abs(dx), Abs(dy))
        dmin  == IF steep THEN Abs(dx) ELSE Abs(dy)
        offs  == BresenhamOffsets(0, 0, 2 * dmin - dmaj, dmaj, dmin)
    IN  [ i \in 1..(dmaj + 1) |->
            IF steep
            THEN << x0 + Sgn(dx) * offs[i], y0 + Sgn(dy) * (i - 1) >>
            ELSE << x0 + Sgn(dx) * (i - 1), y0 + Sgn(dy) * offs[i] >> ]

\* Incremental-step line: step_count + 1 samples, each rounded to nearest.
dda_line(x0, y0, x1, y1) ==
    LET dx    == x1 - x0
        dy    == y1 - y0
        steps == Max(Abs(dx), Abs(dy))
        Rnd(n, d) == (2 * n + d) \div (2 * d)
    IN  IF steps = 0 THEN << <<x0, y0>> >>
        ELSE [ i \in 1..(steps + 1) |->
                 << Rnd(x0 * steps + (i - 1) * dx, steps),
                    Rnd(y0 * steps + (i - 1) * dy, steps) >> ]

Line(kind, x0, y0, x1, y1) ==
    IF kind = "Bresenham" THEN bresenham_line(x0, y0, x1, y1)
    ELSE dda_line(x0, y0, x1, y1)

\* ------------------------------------------------------------ slice object
EmptyArr == [shape |-> <<0, 0>>, rows |-> <<>>]

NoSlice ==
    [kind |-> "none", status |-> "none", stage |-> "", sampled |-> 0,
     frame_n |-> 0, time |-> <<>>, curve_px |-> <<>>, intensity |-> <<>>,
     curve_len |-> 0, curve_ds |-> <<>>]

\* The outcome of a _get_slice that raised: no arrays are returned.
Raised(err, stage, sampled) ==
    [err |-> err, stage |-> stage, sampled |-> sampled,
     curve_px |-> <<>>, intensity |-> <<>>]

MinOf(S) == CHOOSE m \in S : \A n \in S : m <= n

\* intensity_cube[f][row][col] is readable iff both indices are in the axis.
Readable(frame, px) ==
    InAxis(px[1], frame.shape[1]) /\ InAxis(px[2], frame.shape[2])

Cube(seq, f, px) ==
    Data(seq[f], f, NpIndex(px[1], seq[f].shape[1]), NpIndex(px[2], seq[f].shape[2]))

\* np.array([map_s.data for map_s in sequence]): frames of one shape stack
\* into a cube; frames of different shapes either raise ValueError or give an
\* array of per-frame rasters, depending on the numpy in use.
CubeModes(seq) == IF all_maps_same_shape(seq) THEN {"cube"} ELSE {"ValueError", "object"}

\* ------------------------------------------------------------ PointsSlice
\* Lines 113-117: project, np.round, int; the pixel is stored as (row, col).
PointsPixel(frame, w) ==
    LET p == world_to_pixel(frame, w)
    IN  << NpRound(p[2]), NpRound(p[1]) >>

PointsCurve(seq, path, f) == [ i \in 1..Len(path) |-> PointsPixel(seq[f], path[i]) ]

PointsSlice_get_slice(seq, path, cubeMode) ==
    IF cubeMode = "ValueError" THEN Raised("ValueError", "cube", 0)
    ELSE
    LET bad == { f \in 1..Len(seq) :
                   \E i \in 1..Len(path) : ~Readable(seq[f], PointsCurve(seq, path, f)[i]) }
    IN  IF bad # {} THEN Raised("IndexError", "sample", MinOf(bad))
        ELSE [err |-> "none", stage |-> "", sampled |-> Len(seq),
              curve_px  |-> [ f \in 1..Len(seq) |-> PointsCurve(seq, path, f) ],
              intensity |-> [ f \in 1..Len(seq) |->
                                [ i \in 1..Len(path) |->
                                    Cube(seq, f, PointsCurve(seq, path, f)[i]) ] ] ]

\* The distance of each anchor from its predecessor, not accumulated.
PointsSlice_get_curve_ds_no_sum(curve_len, path) ==
    [ i \in 1..curve_len |-> IF i = 1 THEN 0 ELSE separation(path[i], path[i - 1]) ]

RECURSIVE PointsSlice_get_curve_ds(_, _)
PointsSlice_get_curve_ds(curve_len, path) ==
    IF curve_len = 1 THEN <<0>>
    ELSE LET ds == PointsSlice_get_curve_ds(curve_len - 1, path)
         IN  Append(ds, ds[curve_len - 1]
                        + separation(path[curve_len], path[curve_len - 1]))

\* ------------------------------------------- BresenhamSlice and DDASlice
\* Lines 142-147 / 185-190: project, int(), np.abs, np.round; <<x, y>>.
LineCoords(seq, path, f) ==
    [ a \in 1..Len(path) |->
        LET p == world_to_pixel(seq[f], path[a])
        IN  << Abs(IntTrunc(p[1])), Abs(IntTrunc(p[2])) >> ]

\* Lines 149-151 / 192-194: the line from coords[0] to coords[1].
LineCurve(kind, seq, path, f) ==
    LET c == LineCoords(seq, path, f)
    IN  Line(kind, c[1][1], c[1][2], c[2][1], c[2][2])

\* Lines 158-160 / 202-204 of frame f run to the end iff no index i reaches
\* the allocated curve length and every pixel is inside the raster.
LineFrameOk(kind, seq, path, f) ==
    LET cv == LineCurve(kind, seq, path, f)
        L  == Len(LineCurve(kind, seq, path, 1))
    IN  /\ Len(cv) <= L
        /\ \A i \in 1..Len(cv) : Readable(seq[f], << cv[i][2], cv[i][1] >>)

\* Lines 135-161 / 178-205.  The arrays are allocated with the first frame's
\* curve length; a frame writes the cells 0..len-1 of its row.
LineSlice_get_slice(kind, seq, path, cubeMode) ==
    IF cubeMode = "ValueError" THEN Raised("ValueError", "cube", 0)
    ELSE IF Len(path) < 2 THEN Raised("IndexError", "sample", 1)
    ELSE
    LET bad == { f \in 1..Len(seq) : ~LineFrameOk(kind, seq, path, f) }
        cvs == [ f \in 1..Len(seq) |-> LineCurve(kind, seq, path, f) ]
        L   == Len(cvs[1])
    IN  IF bad # {} THEN Raised("IndexError", "sample", MinOf(bad))
        ELSE [err |-> "none", stage |-> "", sampled |-> Len(seq),
              curve_px  |-> [ f \in 1..Len(seq) |->
                  [ i \in 1..L |->
                      IF i <= Len(cvs[f]) THEN << cvs[f][i][2], cvs[f][i][1] >>
                      ELSE << Uninit, Uninit >> ] ],
              intensity |-> [ f \in 1..Len(seq) |->
                  [ i \in 1..L |->
                      IF i <= Len(cvs[f])
                      THEN Cube(seq, f, << cvs[f][i][2], cvs[f][i][1] >>)
                      ELSE Uninit ] ] ]

BresenhamSlice_get_slice(seq, path, cubeMode) ==
    LineSlice_get_slice("Bresenham", seq, path, cubeMode)

DDASlice_get_slice(seq, path, cubeMode) ==
    LineSlice_get_slice("DDA", seq, path, cubeMode)

\* Lines 163-170 / 207-214: curve_px[0].T hands the rows as x and the
\* columns as y to pixel_to_world of the first frame.
RECURSIVE LineSlice_get_curve_ds(_, _, _)
LineSlice_get_curve_ds(curve_len, frame0, px0) ==
    IF curve_len = 1 THEN <<0>>
    ELSE LET ds == LineSlice_get_curve_ds(curve_len - 1, frame0, px0)
             W(i) == pixel_to_world(frame0, px0[i][1], px0[i][2])
         IN  Append(ds, ds[curve_len - 1] + separation(W(curve_len), W(curve_len - 1)))

\* ------------------------------------------------------------ CustomSlice
\* Line 226: raise NotImplemented; NotImplemented is not an exception, so
\* the statement raises TypeError.  self.func is never called.
CustomSlice_get_slice(func) == Raised("TypeError", "get_slice", 0)

\* ------------------------------------------------- GenericSlice.__init__
get_slice(kind, func, seq, path, cubeMode) ==
    CASE kind = "Points"    -> PointsSlice_get_slice(seq, path, cubeMode)
      [] kind = "Bresenham" -> BresenhamSlice_get_slice(seq, path, cubeMode)
      [] kind = "DDA"       -> DDASlice_get_slice(seq, path, cubeMode)
      [] kind = "Custom"    -> CustomSlice_get_slice(func)

get_curve_ds(kind, curve_len, seq, path, curve_px) ==
    IF kind = "Points" THEN PointsSlice_get_curve_ds(curve_len, path)
    ELSE LineSlice_get_curve_ds(curve_len, seq[1], curve_px[1])

\* Lines 20-40.  The inputs are a MapSequence and a SkyCoord, so the type
\* checks pass; the value of all_maps_same_shape() is discarded (line 28).
GenericSlice_init(kind, func, seq, path, cubeMode) ==
    LET same == all_maps_same_shape(seq)
        res  == get_slice(kind, func, seq, path, cubeMode)
    IN  IF res.err # "none"
        THEN [NoSlice EXCEPT !.kind = kind, !.status = res.err,
                             !.stage = res.stage, !.sampled = res.sampled]
        ELSE [kind |-> kind, status |-> "ok", stage |-> "", sampled |-> res.sampled,
              frame_n   |-> Len(seq),
              time      |-> [ f \in 1..Len(seq) |-> seq[f].date ],
              curve_px  |-> res.curve_px,
              intensity |-> res.intensity,
              curve_len |-> Len(res.curve_px[1]),
              curve_ds  |-> get_curve_ds(kind, Len(res.curve_px[1]), seq, path,
                                         res.curve_px)]

\* The cells of the object's np.empty arrays that construction did not write.
Unwritten(obj) ==
    IF obj.status # "ok" THEN {}
    ELSE { c \in (1..obj.frame_n) \X (1..obj.curve_len) :
             obj.intensity[c[1]][c[2]] = Uninit }

\* The object as the program sees it: each unwritten cell holds the value
\* g gives it.
Allocated(obj, g) ==
    IF Unwritten(obj) = {} THEN obj
    ELSE [obj EXCEPT
            !.curve_px  = [ f \in 1..obj.frame_n |-> [ i \in 1..obj.curve_len |->
                              IF <<f, i>> \in DOMAIN g THEN << g[<<f, i>>], g[<<f, i>>] >>
                              ELSE obj.curve_px[f][i] ] ],
            !.intensity = [ f \in 1..obj.frame_n |-> [ i \in 1..obj.curve_len |->
                              IF <<f, i>> \in DOMAIN g THEN g[<<f, i>>]
                              ELSE obj.intensity[f][i] ] ]]

\* ----------------------------------------------------------- pixel_boxcar
NoRet ==
    [op |-> "none", x |-> None, t |-> None, err |-> "none",
     data |-> EmptyArr, time |-> <<>>, ds |-> <<>>]

\* A call that raised returns nothing.
Throws(op, x, t, err) == [NoRet EXCEPT !.op = op, !.x = x, !.t = t, !.err = err]

\* The window check without its lower bound.
BadWindow_no_lower_bound(w) == w % 2 # 1

\* Lines 61 and 72: x <= 1 or x % 2 != 1.
BadWindow(w) == w <= 1 \/ w % 2 # 1

\* Line 64: curve_ds[dx:-dx]; a stop of -0 is the stop 0.
Trim(s, dx) == IF dx = 0 THEN <<>> ELSE SubSeq(s, dx + 1, Len(s) - dx)

\* The convolution with the kernel np.ones(w), not divided by w.
NpConvolveValid_unnormalised(a, w) ==
    [ j \in 1..(Len(a) - w + 1) |->
        [num |-> SumSeq(SubSeq(a, j, j + w - 1)), den |-> 1] ]

\* np.convolve(a, np.ones(w) / float(w), 'valid') for len(a) >= w.
NpConvolveValid(a, w) ==
    [ j \in 1..(Len(a) - w + 1) |->
        [num |-> SumSeq(SubSeq(a, j, j + w - 1)), den |-> w] ]

\* Index reflection of scipy.ndimage's default mode 'reflect' on an axis of
\* extent n (1-based): (d c b a | a b c d | d c b a).
Reflect(i, n) ==
    LET m == (i - 1) % (2 * n)
    IN  IF m < n THEN m + 1 ELSE 2 * n - m

\* scipy.ndimage.convolve(a, np.ones((t, w)) / float(t * w)) for odd t, w.
NdConvolve(a, frame_n, curve_len, t, w) ==
    [ f \in 1..frame_n |->
        [ i \in 1..curve_len |->
            [num |-> SumSeq([ k \in 1..(t * w) |->
                        a[Reflect(f + ((k - 1) \div w) - ((t - 1) \div 2), frame_n)]
                         [Reflect(i + ((k - 1) % w) - ((w - 1) \div 2), curve_len)] ]),
             den |-> t * w] ] ]

\* Lines 59-81.  The value is the object after the call and what the call
\* returned.
pixel_boxcar(self, x, t) ==
    IF x # None /\ t = None THEN
        LET w  == x[1]
            dx == (w - 1) \div 2
        IN  IF BadWindow(w)
            THEN [self |-> self, ret |-> Throws("pixel_boxcar", x, t, "Exception")]
            ELSE IF w > self.curve_len
            THEN [self |-> self, ret |-> Throws("pixel_boxcar", x, t, "ValueError")]
            ELSE [self |-> self,
                  ret  |-> [op |-> "pixel_boxcar", x |-> x, t |-> t, err |-> "none",
                            data |-> [shape |-> <<self.frame_n, self.curve_len - w + 1>>,
                                      rows  |-> [ f \in 1..self.frame_n |->
                                                    NpConvolveValid(self.intensity[f], w) ]],
                            time |-> self.time,
                            ds   |-> Trim(self.curve_ds, dx)]]
    ELSE IF x = None /\ t # None THEN
        [self |-> self, ret |-> Throws("pixel_boxcar", x, t, "TypeError")]
    ELSE IF x # None /\ t # None THEN
        IF BadWindow(x[1])
        THEN [self |-> self, ret |-> Throws("pixel_boxcar", x, t, "Exception")]
        ELSE [self |-> self,
              ret  |-> [op |-> "pixel_boxcar", x |-> x, t |-> t, err |-> "none",
                        data |-> [shape |-> <<self.frame_n, self.curve_len>>,
                                  rows  |-> NdConvolve(self.intensity, self.frame_n,
                                                       self.curve_len, t[1], x[1])],
                        time |-> self.time,
                        ds   |-> self.curve_ds]]
    ELSE
        [self |-> self, ret |-> Throws("pixel_boxcar", x, t, "TypeError")]

\* ----------------------------------------------------- running_difference
\* The difference taken the wrong way round.
running_difference_reversed(arr) ==
    [arr |-> arr,
     difference |->
        [shape |-> <<arr.shape[1] - 1, arr.shape[2]>>,
         rows  |-> [ t \in 1..(arr.shape[1] - 1) |->
                       [ i \in 1..arr.shape[2] |-> arr.rows[t][i] - arr.rows[t + 1][i] ] ]]]

\* Lines 232-238.  The value is the argument after the call and the result.
running_difference(arr) ==
    LET t_len == arr.shape[1]
        x_len == arr.shape[2]
    IN  [arr |-> arr,
         difference |->
            [shape |-> <<t_len - 1, x_len>>,
             rows  |-> [ t \in 1..(t_len - 1) |->
                           [ i \in 1..x_len |-> arr.rows[t + 1][i] - arr.rows[t][i] ] ]]]

\* ------------------------------------------------------------------ state
VARIABLES
    sequence,   \* the MapSequence: a sequence of frames
    path,       \* the SkyCoord path: a sequence of world anchors
    cube,       \* how np.array treats the rasters of this sequence
    func,       \* the func argument of CustomSlice
    slice,      \* the slice object of the latest construction
    prev,       \* the slice object of an earlier construction on these inputs
    ret         \* what the latest post-processing call returned

vars == <<sequence, path, cube, func, slice, prev, ret>>

\* The anchors, in half units: the origin and a point off both axes.
WorldPts == { <<0, 0>>, <<2 * MaxCoord, MaxCoord>> }

Paths == UNION { [1..n -> WorldPts] : n \in 1..MaxAnchors }

\* Frames of one raster shape, or the last frame taller than the others.
Sequences ==
    UNION { { [ f \in 1..n |-> [shape |-> IF f = n /\ last # Shape THEN last ELSE Shape,
                                drift |-> d[f], date |-> f] ] :
                d \in [1..n -> Drifts],
                last \in (IF n = 1 THEN {Shape} ELSE {Shape, TallShape}) } :
            n \in 1..MaxFrames }

XArgs == {None} \cup { Some(v) : v \in 0..MaxWindow }

TArgs == {None, Some(3)}

Init ==
    /\ sequence \in Sequences
    /\ path \in Paths
    /\ cube \in CubeModes(sequence)
    /\ func = None
    /\ slice = NoSlice
    /\ prev = NoSlice
    /\ ret = NoRet

\* A first construction, or a second one of the same class on the same
\* arguments while the first object is kept.
Construct(kind, fn) ==
    /\ prev.kind = "none"
    /\ slice.kind \in {"none", kind}
    /\ slice.kind # "none" => fn = func
    /\ \E obj \in {GenericSlice_init(kind, fn, sequence, path, cube)} :
          \E g \in [Unwritten(obj) -> Garbage] : slice' = Allocated(obj, g)
    /\ prev' = slice
    /\ func' = fn
    /\ ret' = NoRet
    /\ UNCHANGED <<sequence, path, cube>>

NewPointsSlice == Construct("Points", None)

NewBresenhamSlice == Construct("Bresenham", None)

NewDDASlice == Construct("DDA", None)

NewCustomSlice == \E fn \in {None, Some("f")} : Construct("Custom", fn)

\* One post-processing call is explored per constructed object.
PixelBoxcar ==
    /\ slice.status = "ok"
    /\ ret.op = "none"
    /\ \E x \in XArgs, t \in TArgs :
          LET r == pixel_boxcar(slice, x, t)
          IN  slice' = r.self /\ ret' = r.ret
    /\ UNCHANGED <<sequence, path, cube, func, prev>>

RunningDifference ==
    /\ slice.status = "ok"
    /\ ret.op = "none"
    /\ LET r == running_difference([shape |-> <<slice.frame_n, slice.curve_len>>,
                                    rows  |-> slice.intensity])
       IN  /\ slice' = [slice EXCEPT !.intensity = r.arr.rows]
           /\ ret' = [NoRet EXCEPT !.op = "running_difference", !.data = r.difference]
    /\ UNCHANGED <<sequence, path, cube, func, prev>>

\* Construction, and construction again on the same inputs.
Next ==
    \/ NewPointsSlice
    \/ NewBresenhamSlice
    \/ NewDDASlice
    \/ NewCustomSlice

Spec == Init /\ [][Next]_vars

\* Post-processing of a constructed slice: the initial states are the slice
\* objects that the constructors of Spec return.
InitPost ==
    /\ sequence \in Sequences
    /\ path \in Paths
    /\ cube \in CubeModes(sequence)
    /\ func = None
    /\ \E kind \in {"Points", "Bresenham", "DDA"} :
          \E obj \in {GenericSlice_init(kind, None, sequence, path, cube)} :
             \E g \in [Unwritten(obj) -> Garbage] : slice = Allocated(obj, g)
    /\ slice.status = "ok"
    /\ prev = NoSlice
    /\ ret = NoRet

NextPost ==
    \/ PixelBoxcar
    \/ RunningDifference

SpecPost == InitPost /\ [][NextPost]_vars

\* ================================================================ claims
LineKinds == {"Bresenham", "DDA"}

\* The pixels (row, col) that the sampler of the slice's strategy produces
\* for frame f.
SampledPixels(kind, f) ==
    IF kind = "Points" THEN PointsCurve(sequence, path, f)
    ELSE LET cv == LineCurve(kind, sequence, path, f)
         IN  [ i \in 1..Len(cv) |-> << cv[i][2], cv[i][1] >> ]

OutOfRaster(frame, px) ==
    \/ px[1] < 0 \/ px[1] >= frame.shape[1]
    \/ px[2] < 0 \/ px[2] >= frame.shape[2]

\* A line-rasterized construction reached its frame loop with two anchors.
LineSampled == slice.kind \in LineKinds /\ slice.stage # "cube" /\ Len(path) >= 2

FirstLen == Len(LineCurve(slice.kind, sequence, path, 1))

LongerFrames ==
    { f \in 2..Len(sequence) : Len(LineCurve(slice.kind, sequence, path, f)) > FirstLen }

\* C1: when a later frame's rasterized curve is longer than the first
\* frame's curve of length L (and every pixel that has to be read is inside
\* its raster), construction completes with a frame_count x L matrix whose
\* row for that frame holds the first L samples of the frame's curve.
C1_TruncatesAndCompletes ==
    ( /\ LineSampled
      /\ LongerFrames # {}
      /\ \A f \in 1..Len(sequence) : \A i \in 1..FirstLen :
            i <= Len(SampledPixels(slice.kind, f))
               => ~OutOfRaster(sequence[f], SampledPixels(slice.kind, f)[i]) )
    => /\ slice.status = "ok"
       /\ Len(slice.intensity) = Len(sequence)
       /\ \A f \in LongerFrames :
             slice.intensity[f] =
                [ i \in 1..FirstLen |-> Cube(sequence, f, SampledPixels(slice.kind, f)[i]) ]

\* C2: a construction over frames of different raster shapes fails at the
\* shape check, with no frame sampled and no matrix or axis produced.
C2_FailsAtShapeCheck ==
    (slice.kind # "none" /\ ~all_maps_same_shape(sequence))
    => /\ slice.status # "ok"
       /\ slice.stage = "shape"
       /\ slice.sampled = 0
       /\ slice.intensity = <<>>
       /\ slice.curve_ds = <<>>

\* C3: whenever the sampling of some frame produced a pixel outside that
\* frame's raster, construction ended in an IndexError.
C3_OutOfRasterIsFatal ==
    ( /\ slice.kind \in {"Points"} \cup LineKinds
      /\ slice.stage # "cube"
      /\ slice.kind \in LineKinds => Len(path) >= 2
      /\ \E f \in 1..Len(sequence) :
            \E i \in 1..Len(SampledPixels(slice.kind, f)) :
               OutOfRaster(sequence[f], SampledPixels(slice.kind, f)[i]) )
    => slice.status = "IndexError"

\* C4: two completed constructions on the same inputs have the same
\* intensity matrix and the same distance axis.
C4_Idempotent ==
    (prev.status = "ok" /\ slice.status = "ok")
    => /\ slice.intensity = prev.intensity
       /\ slice.curve_ds = prev.curve_ds

\* C5: running_difference of a (T, X) matrix I, T >= 1, has shape (T-1, X)
\* with result[t][i] = I[t+1][i] - I[t][i], and the call leaves I unchanged.
C5_RunningDifference ==
    /\ [](ret.op = "running_difference" =>
            /\ ret.data.shape = <<slice.frame_n - 1, slice.curve_len>>
            /\ Len(ret.data.rows) = slice.frame_n - 1
            /\ \A t \in 1..(slice.frame_n - 1) :
                  /\ Len(ret.data.rows[t]) = slice.curve_len
                  /\ \A i \in 1..slice.curve_len :
                        ret.data.rows[t][i] + slice.intensity[t][i]
                           = slice.intensity[t + 1][i])
    /\ [][ret'.op = "running_difference" => slice' = slice]_vars

C5_Witness ==
    /\ ret.op = "running_difference"
    /\ slice.frame_n >= 2
    /\ \E i \in 1..slice.curve_len : ret.data.rows[1][i] # 0

\* The calls of C6: an odd spatial window w > 1, no temporal window, L >= w.
SpatialCall ==
    /\ ret.op = "pixel_boxcar"
    /\ ret.t = None
    /\ ret.x # None
    /\ ret.x[1] > 1
    /\ ret.x[1] % 2 = 1
    /\ slice.curve_len >= ret.x[1]

\* C6: spatial-only smoothing with odd w > 1 on a slice with L >= w returns
\* frame_count rows of length L - w + 1, out[f][j] being the mean of
\* intensity[f][j .. j+w-1] (a constant row stays constant), and curve_ds
\* without (w-1)/2 entries at each end; the slice is left unchanged.
C6_SpatialBoxcar ==
    /\ [](SpatialCall =>
            LET w == ret.x[1]
                n == slice.curve_len - w + 1
            IN  /\ ret.err = "none"
                /\ ret.data.shape = <<slice.frame_n, n>>
                /\ Len(ret.data.rows) = slice.frame_n
                /\ \A f \in 1..slice.frame_n :
                      /\ Len(ret.data.rows[f]) = n
                      /\ \A j \in 1..n :
                            /\ ret.data.rows[f][j].den > 0
                            /\ ret.data.rows[f][j].num * w
                                  = ret.data.rows[f][j].den
                                      * SumSeq([ k \in 1..w |-> slice.intensity[f][j + k - 1] ])
                            /\ \A c \in {slice.intensity[f][1]} :
                                  (\A i \in 1..slice.curve_len : slice.intensity[f][i] = c)
                                     => ret.data.rows[f][j].num = c * ret.data.rows[f][j].den
                /\ Len(ret.ds) = n
                /\ \A k \in 1..n : ret.ds[k] = slice.curve_ds[k + (w - 1) \div 2])
    /\ [][(SpatialCall)' => slice' = slice]_vars

C6_Witness ==
    /\ SpatialCall
    /\ ret.err = "none"
    /\ slice.frame_n >= 2
    /\ Len(ret.ds) = 1
    /\ ret.ds[1] > 0
    /\ \E f \in 1..slice.frame_n :
          \E i \in 1..slice.curve_len : slice.intensity[f][i] # slice.intensity[f][1]

\* The calls of C7: an even or <= 1 spatial window (with or without a
\* temporal window), or a temporal window alone.
UnsupportedCall ==
    /\ ret.op = "pixel_boxcar"
    /\ \/ ret.x # None /\ (ret.x[1] <= 1 \/ ret.x[1] % 2 = 0)
       \/ ret.x = None /\ ret.t # None

C8_PointsSlice ==
    (slice.kind = "Points" /\ slice.status = "ok")
    => LET N == Len(path)
       IN  /\ slice.curve_len = N
           /\ Len(slice.curve_px) = Len(sequence)
           /\ Len(slice.intensity) = Len(sequence)
           /\ \A f \in 1..Len(sequence) :
                 Len(slice.curve_px[f]) = N /\ Len(slice.intensity[f]) = N
           /\ Len(slice.curve_ds) = N
           /\ slice.curve_ds[1] = 0
           /\ \A i \in 1..(N - 1) :
                 /\ slice.curve_ds[i + 1] >= slice.curve_ds[i]
                 /\ slice.curve_ds[i + 1]
                       = slice.curve_ds[i] + separation(path[i + 1], path[i])

C8_Witness ==
    /\ slice.kind = "Points"
    /\ slice.status = "ok"
    /\ Len(path) = 3
    /\ Len(sequence) = 2
    /\ sequence[1].drift # sequence[2].drift
    /\ slice.curve_ds[2] > 0
    /\ slice.curve_ds[3] > slice.curve_ds[2]

\* C9: a CustomSlice that is given a sampling function is constructed.
C9_CustomWithFuncSucceeds ==
    (slice.kind = "Custom" /\ func # None /\ all_maps_same_shape(sequence))
    => slice.status = "ok"

\* The rasterizations of all consecutive pairs of coords[a..], concatenated.
RECURSIVE SegmentsCurve(_, _, _)
SegmentsCurve(kind, c, a) ==
    IF a >= Len(c) THEN <<>>
    ELSE Line(kind, c[a][1], c[a][2], c[a + 1][1], c[a + 1][2])
            \o SegmentsCurve(kind, c, a + 1)

\* C10: for a path of more than two anchors the first frame's pixel curve is
\* the concatenation of the rasterizations of all consecutive anchor pairs,
\* and so ends at the pixel of the last anchor.
C10_AllSegmentsRasterized ==
    (slice.kind \in LineKinds /\ slice.status = "ok" /\ Len(path) > 2)
    => LET c  == LineCoords(sequence, path, 1)
           sc == SegmentsCurve(slice.kind, c, 1)
       IN  /\ slice.curve_px[1] = [ i \in 1..Len(sc) |-> << sc[i][2], sc[i][1] >> ]
           /\ slice.curve_px[1][Len(slice.curve_px[1])]
                 = << c[Len(c)][2], c[Len(c)][1] >>

====
